---- MODULE Spec2Model ----
(***************************************************************************)
(* ExtAuthzFilterConfig::createFilterFactoryFromProtoTyped                 *)
(* (source/extensions/filters/http/ext_authz/config.cc): selection of the  *)
(* authorization transport for a configuration block, the callback the     *)
(* load returns, the filters the callback installs, and the shared gRPC    *)
(* async client cache the google_grpc path goes through.                   *)
(***************************************************************************)
EXTENDS Integers, Sequences, FiniteSets, TLC

\* Number of configuration blocks that are loaded (concurrently).
NumBlocks == 2
\* Number of callback invocations in total.
MaxInvocations == 2

Blocks == 1..NumBlocks

\* An optional field is a sequence of at most one value.
None == << >>
Some(v) == <<v>>
Opt(S) == {None} \cup {Some(v) : v \in S}

(***************************************************************************)
(* Configuration values                                                    *)
(***************************************************************************)

\* google.protobuf.Duration values: 250 ms, and 2^32 + 250 ms.
Duration250ms == [seconds |-> 0, nanos |-> 250000000]
DurationOver32 == [seconds |-> 4294967, nanos |-> 546000000]
Durations == {Duration250ms, DurationOver32}

\* Target services; the connection manager knows only the first.
Targets == {"authz", "unknown"}
KnownTargets == {"authz"}
ApiVersions == {"AUTO", "V2", "V3"}

GrpcServices ==
  [google_grpc : BOOLEAN, target : Targets, timeout : Opt(Durations)]
HttpServices == [timeout : Opt(Durations)]

\* The ExtAuthz proto: http_service and grpc_service are both optional.
Configs ==
  [http_service : Opt(HttpServices),
   grpc_service : Opt(GrpcServices),
   use_alpha : BOOLEAN,
   transport_api_version : ApiVersions]

Cfg(http, grpc, alpha, version) ==
  [http_service |-> http, grpc_service |-> grpc, use_alpha |-> alpha,
   transport_api_version |-> version]

GoogleGrpc(target, timeout) ==
  Some([google_grpc |-> TRUE, target |-> target, timeout |-> timeout])
EnvoyGrpc(target, timeout) ==
  Some([google_grpc |-> FALSE, target |-> target, timeout |-> timeout])

\* The configurations the concurrently loaded blocks draw from.
SharedConfigs ==
  { Cfg(None, GoogleGrpc("authz", None), FALSE, "V3"),
    Cfg(None, GoogleGrpc("authz", None), FALSE, "AUTO"),
    Cfg(None, GoogleGrpc("authz", Some(Duration250ms)), FALSE, "V3"),
    Cfg(None, GoogleGrpc("unknown", None), FALSE, "V3"),
    Cfg(None, GoogleGrpc("authz", None), TRUE, "V3"),
    Cfg(None, EnvoyGrpc("authz", None), FALSE, "V3"),
    Cfg(None, None, FALSE, "V3"),
    Cfg(Some([timeout |-> Some(Duration250ms)]), GoogleGrpc("authz", None), FALSE, "V3") }

\* proto_config.grpc_service() of an unset field is the default message.
DefaultGrpcService == [google_grpc |-> FALSE, target |-> "", timeout |-> None]
grpc_service(c) ==
  IF c.grpc_service = None THEN DefaultGrpcService ELSE c.grpc_service[1]
http_service(c) == c.http_service[1]
has_http_service(c) == c.http_service # None
has_google_grpc(c) == grpc_service(c).google_grpc

(***************************************************************************)
(* Timeout resolution.  TLC integers are 32 bits wide, so a 64-bit         *)
(* millisecond count is the tuple <<w2, w1, w0>> of its 16-bit limbs       *)
(* (value w2 * 2^32 + w1 * 2^16 + w0) and a uint32_t is <<w1, w0>>.        *)
(***************************************************************************)
Limb == 2^16
DefaultTimeout == 200

U64(n) == <<0, n \div Limb, n % Limb>>

\* DurationUtil::durationToMilliseconds: seconds * 1000 + nanos / 1000000.
DurationToMilliseconds(d) ==
  LET low == (d.seconds % Limb) * 1000 + d.nanos \div 1000000
      mid == (d.seconds \div Limb) * 1000 + low \div Limb
  IN  <<mid \div Limb, mid % Limb, low % Limb>>

\* PROTOBUF_GET_MS_OR_DEFAULT(message, timeout, default_value): uint64_t.
PROTOBUF_GET_MS_OR_DEFAULT(message, default_value) ==
  IF message.timeout = None THEN U64(default_value)
  ELSE DurationToMilliseconds(message.timeout[1])

\* const uint32_t timeout_ms = <uint64_t>: the low 32 bits.
ToUint32(ms) == <<ms[2], ms[3]>>

\* std::chrono::milliseconds(timeout_ms): widened back to 64 bits.
Milliseconds(t) == <<0, t[1], t[2]>>

(***************************************************************************)
(* Transport selection: the if / else if / else of the load.               *)
(***************************************************************************)
\* Transport with the google_grpc test made before the http_service test.
TransportGrpcFirst(c) ==
  IF has_google_grpc(c) THEN "GoogleGrpc"
  ELSE IF has_http_service(c) THEN "RawHttp"
  ELSE "Grpc"

\* Transport without the google_grpc branch: every gRPC service is generic.
TransportNoSharedPath(c) ==
  IF has_http_service(c) THEN "RawHttp" ELSE "Grpc"

\* Transport with every gRPC service sent down the shared-cache branch.
TransportAlwaysShared(c) ==
  IF has_http_service(c) THEN "RawHttp" ELSE "GoogleGrpc"

Transport(c) ==
  IF has_http_service(c) THEN "RawHttp"
  ELSE IF has_google_grpc(c) THEN "GoogleGrpc"
  ELSE "Grpc"

\* CacheKey taken from more of the configuration than the descriptor.
CacheKeyWithVersion(c) == <<grpc_service(c), c.transport_api_version>>

\* The descriptor handed to getOrCreateAsyncClientCache, which keys the cache.
CacheKey(c) == grpc_service(c)

(***************************************************************************)
(* State                                                                   *)
(***************************************************************************)
VARIABLES
  pc,                  \* per block: where its load stands
  proto_config,        \* per block: the configuration given to its load
  timeout_ms,          \* per block: the load's local timeout_ms
  async_client_cache,  \* per block: the load's local cache handle (0: null)
  callback,            \* per block: the callback the load returned
  error,               \* per block: the exception the load threw ("" if none)
  cm_calls,            \* per block: factoryForGrpcService calls of its load
  cache_calls,         \* per block: getOrCreateAsyncClientCache calls of its load
  invocations,         \* per block: invocations of its callback so far
  invoke_error,        \* per block: an invocation of its callback threw
  filter_config_refs,  \* per block: owners of its FilterConfig (0: destroyed)
  async_clients_,      \* the singleton's map: key -> [handle, refs]
  handles_made,        \* number of cache handles constructed so far
  filters,             \* the filters installed by callbacks
  context              \* the FactoryContext the loads are given

vars == <<pc, proto_config, timeout_ms, async_client_cache, callback, error,
          cm_calls, cache_calls, invocations, invoke_error, filter_config_refs,
          async_clients_, handles_made, filters, context>>

NoConfig == Cfg(None, None, FALSE, "AUTO")
NoCallback == [kind |-> "none"]
NoTimeout == <<0, 0>>
EmptyMap == [k \in {} |-> 0]
\* A cache slot whose handle is being constructed by the first caller.
UnderConstruction == [handle |-> 0, refs |-> 0]

Init ==
  /\ pc = [l \in Blocks |-> "idle"]
  /\ proto_config = [l \in Blocks |-> NoConfig]
  /\ timeout_ms = [l \in Blocks |-> NoTimeout]
  /\ async_client_cache = [l \in Blocks |-> 0]
  /\ callback = [l \in Blocks |-> NoCallback]
  /\ error = [l \in Blocks |-> ""]
  /\ cm_calls = [l \in Blocks |-> 0]
  /\ cache_calls = [l \in Blocks |-> 0]
  /\ invocations = [l \in Blocks |-> 0]
  /\ invoke_error = [l \in Blocks |-> FALSE]
  /\ filter_config_refs = [l \in Blocks |-> 0]
  /\ async_clients_ = EmptyMap
  /\ handles_made = 0
  /\ filters = {}
  /\ context = "alive"

(***************************************************************************)
(* Environment: the cluster manager's gRPC async client manager, the       *)
(* transport version check and the async client cache singleton.           *)
(***************************************************************************)

\* factoryForGrpcService(service, scope, true) yields a factory or throws.
FactoryForGrpcServiceOk(service) == service.target \in KnownTargets

\* Config::Utility::getAndCheckTransportVersion may reject a version that is
\* not the current one.
VersionCheckOutcomes(version) ==
  IF version = "V3" THEN {"ok"} ELSE {"ok", "throw"}

LiveHandles ==
  {async_clients_[k].handle : k \in DOMAIN async_clients_} \ {0}

\* ClaimSlot without the claim: a miss leaves no trace for other callers.
ClaimNothing(cache, key) == cache

\* getOrCreateAsyncClientCache, miss: the caller becomes the one constructor.
ClaimSlot(cache, key) == (key :> UnderConstruction) @@ cache

\* getOrCreateAsyncClientCache, hit: one more reference to the entry.
AddRef(cache, key) ==
  [cache EXCEPT ![key] = [@ EXCEPT !.refs = @ + 1]]

\* The constructor installs its handle, holding the first reference.
Install(cache, key, h) == (key :> [handle |-> h, refs |-> 1]) @@ cache

Remove(cache, key) == [k \in DOMAIN cache \ {key} |-> cache[k]]

\* Abandon that leaves the under-construction mark in place.
AbandonKeepsSlot(cache, key) == cache

\* A failed construction gives the slot up.
Abandon(cache, key) ==
  IF key \in DOMAIN cache /\ cache[key].handle = 0 THEN Remove(cache, key)
  ELSE cache

\* A holder of handle h drops its reference; the last one evicts the entry.
Release(cache, key, h) ==
  IF key \in DOMAIN cache /\ cache[key].handle = h
  THEN IF cache[key].refs <= 1 THEN Remove(cache, key)
       ELSE [cache EXCEPT ![key] = [@ EXCEPT !.refs = @ - 1]]
  ELSE cache

\* AsyncClientCache::getAsyncClient: the raw client the entry owns.
GetAsyncClient(h) ==
  IF h \in LiveHandles THEN <<"cached", h>> ELSE <<"destroyed", h>>

(***************************************************************************)
(* createFilterFactoryFromProtoTyped                                       *)
(***************************************************************************)

\* const auto filter_config = std::make_shared<FilterConfig>(...): one owner.
MakeSharedFilterConfig == 1

\* A lambda captures filter_config by value: one more owner.
CaptureFilterConfig(refs) == refs + 1

\* The local filter_config is destroyed when the load returns or throws.
DropLocalFilterConfig(refs) == refs - 1

\* The load returns its callback: filter_config is made, captured, dropped.
ReturnCallback(l) ==
  filter_config_refs' = [filter_config_refs EXCEPT ![l] =
    DropLocalFilterConfig(CaptureFilterConfig(MakeSharedFilterConfig))]

\* if (proto_config.has_http_service()): the whole branch, no check, no
\* shared state; the callback captures filter_config, client_config and
\* a reference to the factory context.
LoadRawHttp(l, c) ==
  /\ pc[l] = "idle"
  /\ context = "alive"
  /\ Transport(c) = "RawHttp"
  /\ LET t == ToUint32(PROTOBUF_GET_MS_OR_DEFAULT(http_service(c), DefaultTimeout))
     IN  /\ timeout_ms' = [timeout_ms EXCEPT ![l] = t]
         /\ callback' = [callback EXCEPT ![l] =
              [kind |-> "RawHttp", filter_config |-> l,
               client_config |-> [timeout |-> t]]]
  /\ proto_config' = [proto_config EXCEPT ![l] = c]
  /\ pc' = [pc EXCEPT ![l] = "done"]
  /\ ReturnCallback(l)
  /\ UNCHANGED <<context, async_client_cache, error, cm_calls, cache_calls,
                 invocations, invoke_error, async_clients_, handles_made, filters>>

\* TransportApiVersion with use_alpha selecting the v2 API, as the field once did.
TransportApiVersionOrAlpha(c) ==
  IF c.use_alpha THEN "V2" ELSE c.transport_api_version

\* transport_api_version = proto_config.transport_api_version(), and the
\* value getAndCheckTransportVersion(proto_config) returns when it returns.
TransportApiVersion(c) == c.transport_api_version

\* else: the generic gRPC branch; the callback captures the service
\* descriptor, the timeout, the transport version and use_alpha, and nothing
\* is checked or built until the callback runs.
LoadGrpc(l, c) ==
  /\ pc[l] = "idle"
  /\ context = "alive"
  /\ Transport(c) = "Grpc"
  /\ LET t == ToUint32(PROTOBUF_GET_MS_OR_DEFAULT(grpc_service(c), DefaultTimeout))
     IN  /\ timeout_ms' = [timeout_ms EXCEPT ![l] = t]
         /\ callback' = [callback EXCEPT ![l] =
              [kind |-> "Grpc", filter_config |-> l,
               grpc_service |-> grpc_service(c), timeout_ms |-> t,
               transport_api_version |-> TransportApiVersion(c),
               use_alpha |-> c.use_alpha]]
  /\ proto_config' = [proto_config EXCEPT ![l] = c]
  /\ pc' = [pc EXCEPT ![l] = "done"]
  /\ ReturnCallback(l)
  /\ UNCHANGED <<context, async_client_cache, error, cm_calls, cache_calls,
                 invocations, invoke_error, async_clients_, handles_made, filters>>

\* RejectsUseAlpha with the test left out.
RejectsNothing(c) == FALSE

\* if (proto_config.hidden_envoy_deprecated_use_alpha()) throw ...
RejectsUseAlpha(c) == c.use_alpha

\* else if (proto_config.grpc_service().has_google_grpc()): the use_alpha
\* check and the timeout, up to the call of getOrCreateAsyncClientCache.
LoadGoogleGrpc(l, c) ==
  /\ pc[l] = "idle"
  /\ context = "alive"
  /\ Transport(c) = "GoogleGrpc"
  /\ proto_config' = [proto_config EXCEPT ![l] = c]
  /\ IF RejectsUseAlpha(c)
     THEN /\ error' = [error EXCEPT ![l] = "use_alpha"]
          /\ pc' = [pc EXCEPT ![l] = "failed"]
          /\ filter_config_refs' = [filter_config_refs EXCEPT ![l] =
               DropLocalFilterConfig(MakeSharedFilterConfig)]
          /\ UNCHANGED timeout_ms
     ELSE /\ timeout_ms' = [timeout_ms EXCEPT ![l] =
               ToUint32(PROTOBUF_GET_MS_OR_DEFAULT(grpc_service(c), DefaultTimeout))]
          /\ pc' = [pc EXCEPT ![l] = "getOrCreate"]
          /\ filter_config_refs' = [filter_config_refs EXCEPT ![l] =
               MakeSharedFilterConfig]
          /\ UNCHANGED error
  /\ UNCHANGED <<context, async_client_cache, callback, cm_calls,
                 cache_calls, invocations, invoke_error, async_clients_, handles_made, filters>>

\* getOrCreateAsyncClientCache, first half: look the key up.  A hit takes a
\* reference; a miss makes the caller the constructor; while another caller
\* constructs the entry the caller waits.
GetOrCreateLookup(l) ==
  /\ pc[l] = "getOrCreate"
  /\ LET key == CacheKey(proto_config[l]) IN
       IF key \in DOMAIN async_clients_
       THEN /\ async_clients_[key].handle # 0
            /\ async_clients_' = AddRef(async_clients_, key)
            /\ async_client_cache' =
                 [async_client_cache EXCEPT ![l] = async_clients_[key].handle]
            /\ pc' = [pc EXCEPT ![l] = "build"]
       ELSE /\ async_clients_' = ClaimSlot(async_clients_, key)
            /\ pc' = [pc EXCEPT ![l] = "construct"]
            /\ UNCHANGED async_client_cache
  /\ cache_calls' = [cache_calls EXCEPT ![l] = @ + 1]
  /\ UNCHANGED <<context, proto_config, timeout_ms, callback, error, cm_calls,
                 invocations, invoke_error, filter_config_refs, handles_made,
                 filters>>

\* getOrCreateAsyncClientCache, second half: the constructor asks the
\* connection manager for the client and installs the entry, or fails.
GetOrCreateConstruct(l) ==
  /\ pc[l] = "construct"
  /\ cm_calls' = [cm_calls EXCEPT ![l] = @ + 1]
  /\ LET key == CacheKey(proto_config[l]) IN
       IF FactoryForGrpcServiceOk(grpc_service(proto_config[l]))
       THEN /\ handles_made' = handles_made + 1
            /\ async_clients_' = Install(async_clients_, key, handles_made + 1)
            /\ async_client_cache' =
                 [async_client_cache EXCEPT ![l] = handles_made + 1]
            /\ pc' = [pc EXCEPT ![l] = "build"]
            /\ UNCHANGED <<error, filter_config_refs>>
       ELSE /\ async_clients_' = Abandon(async_clients_, key)
            /\ error' = [error EXCEPT ![l] = "factory"]
            /\ pc' = [pc EXCEPT ![l] = "failed"]
            /\ filter_config_refs' = [filter_config_refs EXCEPT ![l] =
                 DropLocalFilterConfig(@)]
            /\ UNCHANGED <<handles_made, async_client_cache>>
  /\ UNCHANGED <<context, proto_config, timeout_ms, callback, cache_calls,
                 invocations, invoke_error, filters>>

\* Unwind that also drops the cache entry the failed load had obtained.
UnwindEvicts(cache, key, h) == Remove(cache, key)

\* Unwind with a reference that nothing releases.
UnwindLeaks(cache, key, h) == cache

\* The exception leaves the function: the local async_client_cache is
\* destroyed and its reference released.
Unwind(cache, key, h) == Release(cache, key, h)

\* CaptureByValue with a callback that holds no reference of its own.
CaptureByReference(cache, key, h) == Release(cache, key, h)

\* The callback holds a copy of async_client_cache; the local one is
\* destroyed at the return, so the reference count is what it was.
CaptureByValue(cache, key, h) == cache

\* The callback is built: getAndCheckTransportVersion runs in the capture
\* list, after the cache handle was obtained and copied.
BuildGoogleCallback(l) ==
  /\ pc[l] = "build"
  /\ LET c == proto_config[l]
         h == async_client_cache[l]
     IN \E outcome \in VersionCheckOutcomes(c.transport_api_version) :
          IF outcome = "throw"
          THEN /\ async_clients_' = Unwind(async_clients_, CacheKey(c), h)
               /\ error' = [error EXCEPT ![l] = "transport_api_version"]
               /\ pc' = [pc EXCEPT ![l] = "failed"]
               /\ filter_config_refs' = [filter_config_refs EXCEPT ![l] =
                    DropLocalFilterConfig(@)]
               /\ UNCHANGED callback
          ELSE /\ async_clients_' = CaptureByValue(async_clients_, CacheKey(c), h)
               /\ callback' = [callback EXCEPT ![l] =
                    [kind |-> "GoogleGrpc", filter_config |-> l,
                     async_client_cache |-> h, timeout_ms |-> timeout_ms[l],
                     proto_config |-> c,
                     transport_api_version |-> TransportApiVersion(c)]]
               /\ pc' = [pc EXCEPT ![l] = "done"]
               /\ filter_config_refs' = [filter_config_refs EXCEPT ![l] =
                    DropLocalFilterConfig(CaptureFilterConfig(@))]
               /\ UNCHANGED error
  /\ async_client_cache' = [async_client_cache EXCEPT ![l] = 0]
  /\ UNCHANGED <<context, proto_config, timeout_ms, cm_calls, cache_calls,
                 invocations, invoke_error, handles_made, filters>>

(***************************************************************************)
(* The callbacks                                                           *)
(***************************************************************************)
RECURSIVE SumOver(_, _)
SumOver(f, S) ==
  IF S = {} THEN 0
  ELSE LET x == CHOOSE y \in S : TRUE IN f[x] + SumOver(f, S \ {x})

TotalInvocations == SumOver(invocations, Blocks)

\* MakeUniqueClient with one client per block, built once and reused.
ClientOfBlock(l, n) == 0

\* std::make_unique<...ClientImpl>(...): a new client object, the n-th made.
MakeUniqueClient(l, n) == n

\* CreateDedicated with one raw client per block, created once and reused.
CreateOncePerBlock(l, n) == <<"dedicated", 0>>

\* async_client_factory->create(): a new raw async client, the n-th made.
CreateDedicated(l, n) == <<"dedicated", n>>

NewFilter(l, n, client, raw, t, version) ==
  [id |-> n, block |-> l, filter_config |-> callback[l].filter_config,
   client |-> client, client_id |-> MakeUniqueClient(l, n), raw |-> raw,
   timeout |-> Milliseconds(t), transport_api_version |-> version]

\* The lambdas of the RawHttp and the generic branch capture &context and
\* call context.clusterManager() (and context.scope()) when invoked.
UsesContext(cb) == cb.kind \in {"RawHttp", "Grpc"}

\* The callback of block l refers to a context that no longer exists.
Dangling(l) == UsesContext(callback[l]) /\ context # "alive"

\* One invocation of the callback of block l, by the kind of its closure.  A
\* use of a destroyed context is undefined: the invocation goes on as if the
\* context were there, or it faults.
Invoke(l) ==
  /\ pc[l] = "done"
  /\ TotalInvocations < MaxInvocations
  /\ invocations' = [invocations EXCEPT ![l] = @ + 1]
  /\ context' = IF Dangling(l) THEN "used_after_release" ELSE context
  /\ LET cb == callback[l]
         n == TotalInvocations + 1
     IN \/ /\ Dangling(l)
           /\ invoke_error' = [invoke_error EXCEPT ![l] = TRUE]
           /\ UNCHANGED filters
        \/ CASE cb.kind = "RawHttp" ->
                  /\ filters' = filters \cup
                       {NewFilter(l, n, "RawHttpClientImpl", <<"none", 0>>,
                                  cb.client_config.timeout, "none")}
                  /\ UNCHANGED invoke_error
             [] cb.kind = "GoogleGrpc" ->
                  /\ filters' = filters \cup
                       {NewFilter(l, n, "GrpcClientImpl",
                                  GetAsyncClient(cb.async_client_cache),
                                  cb.timeout_ms, cb.transport_api_version)}
                  /\ UNCHANGED invoke_error
             [] cb.kind = "Grpc" ->
                  IF FactoryForGrpcServiceOk(cb.grpc_service)
                  THEN /\ filters' = filters \cup
                            {NewFilter(l, n, "GrpcClientImpl", CreateDedicated(l, n),
                                       cb.timeout_ms, cb.transport_api_version)}
                       /\ UNCHANGED invoke_error
                  ELSE /\ invoke_error' = [invoke_error EXCEPT ![l] = TRUE]
                       /\ UNCHANGED filters
  /\ filter_config_refs' = [filter_config_refs EXCEPT ![l] =
       @ + Cardinality(filters' \ filters)]
  /\ UNCHANGED <<pc, proto_config, timeout_ms, async_client_cache, callback,
                 error, cm_calls, cache_calls, async_clients_, handles_made>>

\* The environment destroys the FactoryContext once no load is running and
\* some load has returned its callback; it starts no load afterwards.
DestroyContext ==
  /\ context = "alive"
  /\ \A l \in Blocks : pc[l] \in {"idle", "done", "failed", "gone"}
  /\ \E l \in Blocks : pc[l] = "done"
  /\ context' = "released"
  /\ UNCHANGED <<pc, proto_config, timeout_ms, async_client_cache, callback,
                 error, cm_calls, cache_calls, invocations, invoke_error,
                 filter_config_refs, async_clients_, handles_made, filters>>

\* The callback of block l is destroyed (its configuration is torn down):
\* whatever it captured by value is released.
Teardown(l) ==
  /\ pc[l] = "done"
  /\ pc' = [pc EXCEPT ![l] = "gone"]
  /\ callback' = [callback EXCEPT ![l] = NoCallback]
  /\ async_clients_' =
       IF callback[l].kind = "GoogleGrpc"
       THEN Release(async_clients_, CacheKey(callback[l].proto_config),
                    callback[l].async_client_cache)
       ELSE async_clients_
  /\ filter_config_refs' = [filter_config_refs EXCEPT ![l] = @ - 1]
  /\ UNCHANGED <<context, proto_config, timeout_ms, async_client_cache, error,
                 cm_calls, cache_calls, invocations, invoke_error,
                 handles_made, filters>>

(***************************************************************************)
(* Specifications                                                          *)
(***************************************************************************)
Step(B, CS) ==
  \/ \E l \in B :
       \/ \E c \in CS : LoadRawHttp(l, c)
       \/ \E c \in CS : LoadGoogleGrpc(l, c)
       \/ \E c \in CS : LoadGrpc(l, c)
       \/ GetOrCreateLookup(l)
       \/ GetOrCreateConstruct(l)
       \/ BuildGoogleCallback(l)
       \/ Invoke(l)
       \/ Teardown(l)
  \/ DestroyContext

\* Every block is loaded, concurrently with the others.
Next == Step(Blocks, SharedConfigs)
Spec == Init /\ [][Next]_vars

\* One block, loaded with any configuration of the schema.
NextOne == Step({1}, Configs)
SpecOne == Init /\ [][NextOne]_vars

\* Spec with every load's thread scheduled fairly while it is inside
\* getOrCreateAsyncClientCache.
FairSpec ==
  /\ Spec
  /\ \A l \in Blocks :
       WF_vars(GetOrCreateLookup(l)) /\ WF_vars(GetOrCreateConstruct(l))

TypeOK ==
  /\ context \in {"alive", "released", "used_after_release"}
  /\ pc \in [Blocks -> {"idle", "getOrCreate", "construct", "build", "done",
                        "failed", "gone"}]
  /\ proto_config \in [Blocks -> Configs]
  /\ async_client_cache \in [Blocks -> 0..NumBlocks]
  /\ error \in [Blocks -> {"", "use_alpha", "factory", "transport_api_version"}]
  /\ cm_calls \in [Blocks -> 0..1]
  /\ cache_calls \in [Blocks -> 0..1]
  /\ invocations \in [Blocks -> 0..MaxInvocations]
  /\ invoke_error \in [Blocks -> BOOLEAN]
  /\ filter_config_refs \in [Blocks -> 0..(MaxInvocations + 2)]
  /\ handles_made \in 0..NumBlocks
  /\ \A k \in DOMAIN async_clients_ : async_clients_[k].refs \in 0..NumBlocks

(***************************************************************************)
(* Properties                                                              *)
(***************************************************************************)
FiltersOf(l) == {f \in filters : f.block = l}
ClientsBuilt(l) == {f.client_id : f \in FiltersOf(l)}
Loaded(l) == pc[l] # "idle"

\* The cache handle block l holds: in the load's local, or in its callback.
HandleOf(l) ==
  IF pc[l] = "build" THEN async_client_cache[l]
  ELSE IF callback[l].kind = "GoogleGrpc" THEN callback[l].async_client_cache
  ELSE 0
Holders(h) == {l \in Blocks : HandleOf(l) = h}
Quiescent == \A l \in Blocks : pc[l] \in {"idle", "done", "failed", "gone"}

\* C1: a configuration with http_service present selects RawHttp, whatever
\* its grpc_service: its load returns the RawHttp callback and every filter
\* of the block holds a RawHttpClientImpl and no gRPC client.
C1_HttpServiceSelectsRawHttp ==
  \A l \in Blocks :
    (Loaded(l) /\ has_http_service(proto_config[l])) =>
      /\ pc[l] \in {"done", "gone"}
      /\ pc[l] = "done" => callback[l].kind = "RawHttp"
      /\ \A f \in FiltersOf(l) :
           f.client = "RawHttpClientImpl" /\ f.raw = <<"none", 0>>

C1_Witness ==
  \E f \in filters :
    /\ has_http_service(proto_config[f.block])
    /\ has_google_grpc(proto_config[f.block])
    /\ f.client = "RawHttpClientImpl"

\* C2 (as claimed): a load of a configuration with use_alpha set fails and
\* returns no callback, whichever transport the configuration selects.
C2_UseAlphaAlwaysRejected ==
  \A l \in Blocks :
    (Loaded(l) /\ proto_config[l].use_alpha) =>
      pc[l] = "failed" /\ callback[l].kind = "none"

\* C3: two blocks on the google_grpc path whose grpc_service descriptors are
\* equal hold the same cache handle while both hold one, and at most one of
\* the two loads went to the connection manager for it.
C3_EqualKeysShareOneHandle ==
  \A l1, l2 \in Blocks :
    ( /\ l1 # l2
      /\ HandleOf(l1) # 0 /\ HandleOf(l2) # 0
      /\ grpc_service(proto_config[l1]) = grpc_service(proto_config[l2]) ) =>
      /\ HandleOf(l1) = HandleOf(l2)
      /\ cm_calls[l1] + cm_calls[l2] <= 1

C3_Witness ==
  \E l1, l2 \in Blocks :
    /\ l1 # l2
    /\ callback[l1].kind = "GoogleGrpc" /\ callback[l2].kind = "GoogleGrpc"
    /\ proto_config[l1] # proto_config[l2]
    /\ grpc_service(proto_config[l1]) = grpc_service(proto_config[l2])
    /\ HandleOf(l1) = HandleOf(l2)
    /\ cm_calls[l1] = 1 /\ cm_calls[l2] = 0

\* C4: a cache entry is never destroyed while a callback references it (no
\* filter was built from a destroyed entry), and once no load is in flight
\* the live entries are exactly those some live callback references.
C4_EntryLiveIffReferenced ==
  /\ \A l \in Blocks :
       callback[l].kind = "GoogleGrpc" =>
         callback[l].async_client_cache \in LiveHandles
  /\ \A f \in filters : f.raw[1] # "destroyed"
  /\ Quiescent =>
       LiveHandles =
         {callback[l].async_client_cache :
            l \in {b \in Blocks : callback[b].kind = "GoogleGrpc"}}

C4_Witness ==
  \E l1, l2 \in Blocks :
    /\ Quiescent
    /\ pc[l1] = "gone" /\ cm_calls[l1] = 1
    /\ pc[l2] = "gone" /\ cm_calls[l2] = 0 /\ Transport(proto_config[l2]) = "GoogleGrpc"
    /\ grpc_service(proto_config[l1]) = grpc_service(proto_config[l2])
    /\ FiltersOf(l2) # {}
    /\ LiveHandles = {}

\* C5: of the loads that are inside or past getOrCreateAsyncClientCache with
\* equal keys and still hold what they got, at most one is or was the
\* constructor, and each holder's handle is the one the cache has for the key.
C5_OneConstructionUnderRaces ==
  /\ \A l1, l2 \in Blocks :
       ( /\ l1 # l2
         /\ pc[l1] \in {"construct", "build", "done"}
         /\ pc[l2] \in {"construct", "build", "done"}
         /\ Transport(proto_config[l1]) = "GoogleGrpc"
         /\ Transport(proto_config[l2]) = "GoogleGrpc"
         /\ CacheKey(proto_config[l1]) = CacheKey(proto_config[l2]) ) =>
         ~ (cm_calls[l1] = 1 \/ pc[l1] = "construct")
         \/ ~ (cm_calls[l2] = 1 \/ pc[l2] = "construct")
  /\ \A l \in Blocks :
       HandleOf(l) # 0 =>
         /\ CacheKey(proto_config[l]) \in DOMAIN async_clients_
         /\ async_clients_[CacheKey(proto_config[l])].handle = HandleOf(l)

C5_Witness ==
  \E l1, l2 \in Blocks :
    /\ pc[l1] = "construct" /\ pc[l2] = "getOrCreate"
    /\ CacheKey(proto_config[l1]) = CacheKey(proto_config[l2])

\* The timeout field of the transport the configuration selects.
SelectedTimeoutMessage(c) ==
  IF has_http_service(c) THEN http_service(c) ELSE grpc_service(c)

\* C6: on the generic gRPC path every filter holds a raw client fresh from
\* the connection factory: no two filters, of one block or of two blocks with
\* identical descriptors, hold the same dedicated raw client or the same
\* client object.
C6_DedicatedClientsDistinct ==
  /\ \A f \in filters :
       Transport(proto_config[f.block]) = "Grpc" => f.raw[1] = "dedicated"
  /\ \A f1, f2 \in filters :
       (f1 # f2 /\ f1.raw[1] = "dedicated") =>
         f1.raw # f2.raw /\ f1.client_id # f2.client_id

C6_Witness ==
  \E f1, f2 \in filters :
    /\ f1.block # f2.block
    /\ f1.raw[1] = "dedicated" /\ f2.raw[1] = "dedicated"
    /\ proto_config[f1.block] = proto_config[f2.block]

\* The filters of one google_grpc block wrap one and the same cached client.
C6_SharedWitness ==
  \E f1, f2 \in filters :
    f1 # f2 /\ f1.raw[1] = "cached" /\ f1.raw = f2.raw

C8_NoErrorDeferredToInvocation ==
  \A l \in Blocks : ~ invoke_error[l]

\* C9 (as claimed): the timeout bound to a client is DefaultTimeout when the
\* selected transport's timeout field is absent and the field's millisecond
\* value otherwise, for every duration.
C9_TimeoutIsFieldValue ==
  \A f \in filters :
    LET message == SelectedTimeoutMessage(proto_config[f.block]) IN
      f.timeout = IF message.timeout = None THEN U64(DefaultTimeout)
                  ELSE DurationToMilliseconds(message.timeout[1])

\* C10: a load that fails after it obtained a cache entry has released its
\* reference: the entry of its key, if live, is counted for exactly the
\* blocks that hold it, and is gone if there are none.
C10_FailedLoadHoldsNothing ==
  \A l \in Blocks :
    pc[l] = "failed" =>
      LET key == CacheKey(proto_config[l]) IN
        (key \in DOMAIN async_clients_ /\ async_clients_[key].handle # 0) =>
          /\ async_clients_[key].refs = Cardinality(Holders(async_clients_[key].handle))
          /\ async_clients_[key].refs >= 1

C10_Witness ==
  \E l \in Blocks :
    /\ pc[l] = "failed" /\ error[l] = "transport_api_version"
    /\ cm_calls[l] = 1
    /\ async_clients_ = EmptyMap

\* Block l's load fails in this step.
FailsNow(l) == pc[l] # "failed" /\ pc'[l] = "failed"

\* C11: a step in which the load of one block fails leaves every other block
\* as it was: its callback and the handle it holds are unchanged, the handle
\* is still live, and the entry is counted for exactly the blocks holding it.
C11_FailedLoadLeavesOthersAlone ==
  [][ \A l \in Blocks :
        FailsNow(l) =>
          \A m \in Blocks \ {l} :
            /\ pc'[m] = pc[m]
            /\ callback'[m] = callback[m]
            /\ HandleOf(m)' = HandleOf(m)
            /\ HandleOf(m) # 0 =>
                 LET key == CacheKey(proto_config[m]) IN
                   /\ key \in DOMAIN async_clients_'
                   /\ async_clients_'[key].handle = HandleOf(m)
                   /\ async_clients_'[key].refs = Cardinality(Holders(HandleOf(m)))' ]_vars

C11_Witness ==
  \E l, m \in Blocks :
    /\ pc[l] = "failed" /\ error[l] = "transport_api_version" /\ cm_calls[l] = 0
    /\ pc[m] = "done" /\ callback[m].kind = "GoogleGrpc"
    /\ CacheKey(proto_config[m]) = CacheKey(proto_config[l])
    /\ async_clients_[CacheKey(proto_config[m])].handle = HandleOf(m)
    /\ async_clients_[CacheKey(proto_config[m])].refs = 1

\* C12: on both gRPC paths the client of every filter carries the
\* configuration's transport_api_version, whatever its value.
C12_TransportVersionVerbatim ==
  \A f \in filters :
    f.client = "GrpcClientImpl" =>
      f.transport_api_version = proto_config[f.block].transport_api_version

C12_Witness ==
  \E f \in filters :
    /\ f.raw[1] = "dedicated"
    /\ proto_config[f.block].use_alpha
    /\ f.transport_api_version = "AUTO"

\* The transport variant a filter was built for, read off its client.
VariantOf(f) ==
  IF f.client = "RawHttpClientImpl" THEN "RawHttp"
  ELSE IF f.raw[1] = "dedicated" THEN "Grpc"
  ELSE "GoogleGrpc"

\* C13: a successful load has selected exactly one variant from its
\* configuration alone: RawHttp with http_service; without it the shared-cache
\* path exactly if grpc_service has google_grpc, else the generic path.  The
\* callback is of that variant and so is every filter it installs, all with
\* the one timeout resolved at load.
C13_OneVariantFixedAtLoad ==
  \A l \in Blocks :
    pc[l] = "done" =>
      LET c == proto_config[l]
          variant == IF c.http_service # None THEN "RawHttp"
                     ELSE IF c.grpc_service # None /\ c.grpc_service[1].google_grpc
                          THEN "GoogleGrpc"
                     ELSE "Grpc"
      IN  /\ callback[l].kind = variant
          /\ \A f \in FiltersOf(l) : VariantOf(f) = variant
          /\ \A f1, f2 \in FiltersOf(l) : f1.timeout = f2.timeout

C13_Witness ==
  \E l \in Blocks :
    /\ pc[l] = "done" /\ callback[l].kind = "GoogleGrpc"
    /\ Cardinality(FiltersOf(l)) = 2
    /\ \A f \in FiltersOf(l) : f.raw[1] = "cached" /\ f.timeout = U64(250)

\* The FilterConfig of block l exists as long as anything owns it.
FilterConfigAlive(l) == filter_config_refs[l] > 0

\* C14 (as claimed): every invocation of a callback has registered exactly
\* one filter, and the filters of a block all hold the block's one
\* FilterConfig, which is alive while the callback or any of them exists.
C14_OneFilterPerInvocation ==
  \A l \in Blocks :
    /\ Cardinality(FiltersOf(l)) = invocations[l]
    /\ \A f \in FiltersOf(l) : f.filter_config = l
    /\ (callback[l].kind # "none" \/ FiltersOf(l) # {}) => FilterConfigAlive(l)

\* What of C14 the code keeps: one FilterConfig per block, shared by its
\* filters and owned by the callback and each of them.
FilterConfigSharedAndOwned ==
  \A l \in Blocks :
    /\ \A f \in FiltersOf(l) : f.filter_config = l
    /\ filter_config_refs[l] =
         Cardinality(FiltersOf(l))
         + (IF callback[l].kind # "none" THEN 1 ELSE 0)
         + (IF pc[l] \in {"getOrCreate", "construct", "build"} THEN 1 ELSE 0)

\* The path a configuration asks for, read off its fields.
ConfiguredPath(c) ==
  IF c.http_service # None THEN "RawHttp"
  ELSE IF c.grpc_service # None /\ c.grpc_service[1].google_grpc THEN "GoogleGrpc"
  ELSE "Grpc"

\* The cache and everything that counts what was done to it.
cache_state == <<async_clients_, handles_made, cache_calls, cm_calls>>

UseAlphaRejected(l) ==
  /\ Loaded(l)
  /\ ConfiguredPath(proto_config[l]) = "GoogleGrpc"
  /\ proto_config[l].use_alpha

\* C15: on the google_grpc path the use_alpha check comes before any cache
\* access.  A load of such a configuration with use_alpha set has failed with
\* that error without calling getOrCreateAsyncClientCache or the client
\* factory and holds no handle, and the step in which it fails leaves every
\* cache entry, every reference count and the set of clients as they were.
C15_UseAlphaCheckedBeforeCache ==
  /\ [](\A l \in Blocks :
          UseAlphaRejected(l) =>
            /\ pc[l] = "failed" /\ error[l] = "use_alpha"
            /\ cache_calls[l] = 0 /\ cm_calls[l] = 0
            /\ HandleOf(l) = 0 /\ callback[l] = NoCallback
            /\ FiltersOf(l) = {})
  /\ [][ \A l \in Blocks :
           (FailsNow(l) /\ error'[l] = "use_alpha") =>
             /\ cache_state' = cache_state
             /\ filters' = filters ]_vars

\* A use_alpha load has failed beside a block holding the entry of the key the
\* failed load would have asked for, its count still one.
C15_Witness ==
  \E l, m \in Blocks :
    /\ l # m
    /\ UseAlphaRejected(l) /\ pc[l] = "failed"
    /\ pc[m] = "done" /\ callback[m].kind = "GoogleGrpc"
    /\ CacheKey(proto_config[m]) = CacheKey(proto_config[l])
    /\ async_clients_[CacheKey(proto_config[l])].refs = 1

LoadsOffCache(l) ==
  /\ pc[l] = "idle" /\ pc'[l] # "idle"
  /\ ConfiguredPath(proto_config'[l]) # "GoogleGrpc"
Invokes(l) == invocations'[l] # invocations[l]
OnGooglePath(l) ==
  /\ ConfiguredPath(proto_config[l]) = "GoogleGrpc"
  /\ \/ pc[l] \in {"getOrCreate", "construct", "build"}
     \/ pc[l] = "done" /\ pc'[l] = "gone"

\* C16: the client cache is changed only by google_grpc-path loads and by
\* the teardown of their callbacks.  A load on the RawHttp or the generic path
\* and an invocation on any path call no getOrCreate and leave the entries and
\* their counts unchanged; a RawHttp load never calls the gRPC client factory.
C16_CacheTouchedOnlyByGooglePath ==
  /\ [](\A l \in Blocks :
          (Loaded(l) /\ ConfiguredPath(proto_config[l]) # "GoogleGrpc") =>
            /\ cache_calls[l] = 0 /\ HandleOf(l) = 0
            /\ (ConfiguredPath(proto_config[l]) = "RawHttp" => cm_calls[l] = 0))
  /\ [][ /\ \A l \in Blocks :
             (LoadsOffCache(l) \/ Invokes(l)) =>
               /\ async_clients_' = async_clients_
               /\ handles_made' = handles_made
               /\ cache_calls' = cache_calls
         /\ (async_clients_' # async_clients_ =>
               \E m \in Blocks : pc'[m] # pc[m] /\ OnGooglePath(m)) ]_vars

\* A RawHttp block and a generic block have loaded and been invoked beside a
\* google_grpc block whose entry still counts that block alone.
C16_Witness ==
  \E l, m \in Blocks :
    /\ l # m
    /\ callback[l].kind \in {"RawHttp", "Grpc"} /\ FiltersOf(l) # {}
    /\ callback[m].kind = "GoogleGrpc" /\ FiltersOf(m) # {}
    /\ async_clients_[CacheKey(proto_config[m])].refs = 1

InGetOrCreate(l) == pc[l] \in {"getOrCreate", "construct"}

\* A load that was handed an entry it did not construct.
LostRace(l) == pc[l] = "build" /\ cache_calls[l] = 1 /\ cm_calls[l] = 0

\* C17: under fair scheduling every caller of getOrCreateAsyncClientCache
\* returns: a load inside the call leaves it, with a handle or with the
\* constructor's error, and a caller that lost the race holds the handle the
\* winning construction installed under its key.
C17_GetOrCreateReturns ==
  /\ \A l \in Blocks : InGetOrCreate(l) ~> ~InGetOrCreate(l)
  /\ [](\A l \in Blocks :
          LostRace(l) =>
            LET key == CacheKey(proto_config[l]) IN
              /\ key \in DOMAIN async_clients_
              /\ async_clients_[key].handle = HandleOf(l)
              /\ HandleOf(l) \in 1..handles_made)

\* Two loads are in flight at once with one handle: the one that constructed
\* it and the one that lost the race and was handed it.
C17_Witness ==
  \E l, m \in Blocks :
    /\ LostRace(l)
    /\ pc[m] = "build" /\ cm_calls[m] = 1
    /\ HandleOf(l) = HandleOf(m)
    /\ async_clients_[CacheKey(proto_config[l])].refs = 2

\* C18 (as claimed): no invocation of a callback touches released state: no
\* callback, on any of the three paths, has used the FactoryContext after the
\* environment destroyed it.
C18_CallbackOwnsItsInputs == context # "used_after_release"

\* What of C18 the code keeps: the callback of the google_grpc path refers to
\* nothing but its own captures, so a destroyed context costs it nothing.
GoogleCallbackIgnoresContext ==
  \A l \in Blocks : callback[l].kind = "GoogleGrpc" => ~Dangling(l)

====
